---------------------------- MODULE Spec2Model ----------------------------
(***************************************************************************)
(* ClusterChainDynamics: the stateful CompactObject stepping path          *)
(* (core/compact_object.py, core/star_cluster.py,                          *)
(* core/self_propelling_mc.py) and the functional solve path               *)
(* (simulations/calculate_path.py with the force registries).              *)
(*                                                                         *)
(* Numbers. A float64 is modelled as a record [k, v]: k = "num" with the   *)
(* integer value v, k = "nan", or k = "inf" with v the sign.  All inputs   *)
(* are integers and vectors lie on the x axis, so every norm and every     *)
(* quotient the code computes on finite values is exact.                   *)
(***************************************************************************)
EXTENDS Integers, Sequences, FiniteSets, TLC

(* ------------------------------ bounds -------------------------------- *)
MaxMass == 2
MaxRate == 2
MaxFactor == 1
MaxDt == 1
MaxAbsVel == 2
MaxAbsPos == 2
MaxAbsTime == 2

(* --------------------------- float64 values --------------------------- *)
Num(n) == [k |-> "num", v |-> n]
NaN == [k |-> "nan", v |-> 0]
Inf(s) == [k |-> "inf", v |-> s]

Sgn(n) == IF n > 0 THEN 1 ELSE IF n < 0 THEN -1 ELSE 0
Abs(n) == IF n < 0 THEN -n ELSE n

FSign(a) == IF a.k = "num" THEN Sgn(a.v) ELSE a.v

FAdd(a, b) ==
    IF a.k = "nan" \/ b.k = "nan" THEN NaN
    ELSE IF a.k = "inf" /\ b.k = "inf" THEN (IF a.v = b.v THEN a ELSE NaN)
    ELSE IF a.k = "inf" THEN a
    ELSE IF b.k = "inf" THEN b
    ELSE Num(a.v + b.v)

FMul(a, b) ==
    IF a.k = "nan" \/ b.k = "nan" THEN NaN
    ELSE IF a.k = "inf" \/ b.k = "inf"
         THEN (IF FSign(a) * FSign(b) = 0 THEN NaN ELSE Inf(FSign(a) * FSign(b)))
    ELSE Num(a.v * b.v)

(* IEEE division as numpy performs it: x/0 is nan or +-inf (a warning,     *)
(* never an exception).                                                    *)
FDiv(a, b) ==
    IF a.k = "nan" \/ b.k = "nan" THEN NaN
    ELSE IF a.k = "inf" /\ b.k = "inf" THEN NaN
    ELSE IF a.k = "inf" THEN Inf(IF FSign(b) < 0 THEN -a.v ELSE a.v)
    ELSE IF b.k = "inf" THEN Num(0)
    ELSE IF b.v = 0 THEN (IF a.v = 0 THEN NaN ELSE Inf(Sgn(a.v)))
    ELSE Num(Sgn(a.v) * Sgn(b.v) * (Abs(a.v) \div Abs(b.v)))

(* x > 0 on floats: False for nan *)
FGtZero(a) == (a.k = "num" /\ a.v > 0) \/ (a.k = "inf" /\ a.v > 0)

(* ------------------------------ 3-vectors ----------------------------- *)
Vec(x, y, z) == <<Num(x), Num(y), Num(z)>>
zeros3 == Vec(0, 0, 0)
VAdd(u, w) == [i \in 1..3 |-> FAdd(u[i], w[i])]
VScale(u, s) == [i \in 1..3 |-> FMul(u[i], s)]
VDivS(u, s) == [i \in 1..3 |-> FDiv(u[i], s)]
VFinite(u) == \A i \in 1..3 : u[i].k = "num"

RECURSIVE ISqrtFrom(_, _)
ISqrtFrom(n, r) == IF (r + 1) * (r + 1) > n THEN r ELSE ISqrtFrom(n, r + 1)

(* np.linalg.norm *)
norm(u) ==
    IF \E i \in 1..3 : u[i].k = "nan" THEN NaN
    ELSE IF \E i \in 1..3 : u[i].k = "inf" THEN Inf(1)
    ELSE Num(ISqrtFrom(u[1].v * u[1].v + u[2].v * u[2].v + u[3].v * u[3].v, 0))

(* ------------------------------- state -------------------------------- *)
VARIABLES
    variant,            \* "StarCluster" | "SelfPropellingMolecularCloud"
    initial_mass, initial_position, initial_velocity, initial_time,
    current_mass, current_position, current_velocity, current_time,
    mass_loss_rate, feedback_factor,
    call                \* the last method call on the object and its outcome

objVars == <<variant, initial_mass, initial_position, initial_velocity,
             initial_time, current_mass, current_position, current_velocity,
             current_time, mass_loss_rate, feedback_factor, call>>

(* the functional path: one call of calculate_path.single_object_solve *)
VARIABLES
    has_galpy,          \* galpy_wrapper.has_galpy, set at import
    args,               \* the caller's arguments
    potential_func,     \* the resolved gravity callable
    feedback_func,      \* the resolved feedback callable
    lookups,            \* the registries consulted, in order
    pc,                 \* "called" | "integrating" | "raised" | "returned"
    exc,                \* the exception that ended the call
    ivp_calls,          \* the invocations of solve_ivp
    evals,              \* the derivative evaluations made by the integrator
    sol,                \* the result objects solve_ivp produced
    ret                 \* the value returned to the caller

fnVars == <<has_galpy, args, potential_func, feedback_func, lookups, pc, exc,
            ivp_calls, evals, sol, ret>>

vars == <<objVars, fnVars>>

None == "None"
(* Optional[float]: None is the empty tuple, a given time t is <<t>> *)
NoTime == <<>>

Variants == {"StarCluster", "SelfPropellingMolecularCloud"}
Masses == 0..MaxMass
Rates == 0..MaxRate
Factors == {0, MaxFactor}
Steps == (-1)..MaxDt
AxisVecs == {Vec(x, 0, 0) : x \in (-1)..1}
InitialVelocities == {Vec(x, 0, 0) : x \in 0..1}
NoCall == [op |-> "__init__", raised |-> None]

(* CompactObject.__post_init__ with the subclass __init__ *)
ObjectInit ==
    /\ variant \in Variants
    /\ initial_mass \in Masses
    /\ initial_position = zeros3
    /\ initial_velocity \in InitialVelocities
    /\ initial_time \in {NoTime} \cup {<<1>>}
    /\ mass_loss_rate \in Rates
    /\ feedback_factor \in (IF variant = "StarCluster" THEN {0} ELSE Factors)
    /\ current_mass = initial_mass
    /\ current_position = initial_position
    /\ current_velocity = initial_velocity
    /\ current_time = (IF initial_time # NoTime THEN initial_time[1] ELSE 0)
    /\ call = NoCall

(* StarCluster.calculate_feedback_force_and_massloss *)
StarClusterFeedback(mdot) == [force |-> zeros3, mdot |-> mdot]

(* SelfPropellingMolecularCloud.calculate_feedback_force_and_massloss *)
MolecularCloudFeedbackUnguarded(m, v, factor, mdot) ==
    LET velocity_magnitude == norm(v)
        direction == VDivS(v, velocity_magnitude)
    IN [force |-> VScale(direction, FMul(Num(m), Num(factor))), mdot |-> mdot]

MolecularCloudFeedbackUnitForce(m, v, factor, mdot) ==
    LET velocity_magnitude == norm(v)
        direction == IF FGtZero(velocity_magnitude)
                     THEN VDivS(v, velocity_magnitude)
                     ELSE zeros3
    IN [force |-> VScale(direction, Num(factor)), mdot |-> mdot]

MolecularCloudFeedback(m, v, factor, mdot) ==
    LET velocity_magnitude == norm(v)
        direction == IF FGtZero(velocity_magnitude)
                     THEN VDivS(v, velocity_magnitude)
                     ELSE zeros3
    IN [force |-> VScale(direction, FMul(Num(m), Num(factor))), mdot |-> mdot]

calculate_feedback_force_and_massloss ==
    IF variant = "StarCluster"
    THEN StarClusterFeedback(mass_loss_rate)
    ELSE MolecularCloudFeedback(current_mass, current_velocity,
                                feedback_factor, mass_loss_rate)

(* CompactObject.get_age *)
get_age ==
    current_time - (IF initial_time # NoTime THEN initial_time[1] ELSE 0)

(* CompactObject._update: the new values of the four current_* fields *)
UpdateNoClamp(m, p, v, t, dt, dm, acceleration) ==
    LET nv == VAdd(v, VScale(acceleration, Num(dt)))
        np == VAdd(p, VScale(nv, Num(dt)))
    IN [mass |-> m - dm, position |-> np, velocity |-> nv, time |-> t + dt]

UpdateClampStopsClock(m, p, v, t, dt, dm, acceleration) ==
    LET nv == VAdd(v, VScale(acceleration, Num(dt)))
        np == VAdd(p, VScale(nv, Num(dt)))
        nm == m - dm
    IN [mass |-> IF nm < 0 THEN 0 ELSE nm,
        position |-> np, velocity |-> nv,
        time |-> IF nm < 0 THEN t ELSE t + dt]

UpdateOldVelocity(m, p, v, t, dt, dm, acceleration) ==
    LET nv == VAdd(v, VScale(acceleration, Num(dt)))
        np == VAdd(p, VScale(v, Num(dt)))
        nm == m - dm
    IN [mass |-> IF nm < 0 THEN 0 ELSE nm,
        position |-> np, velocity |-> nv, time |-> t + dt]

Update(m, p, v, t, dt, dm, acceleration) ==
    LET nv == VAdd(v, VScale(acceleration, Num(dt)))
        np == VAdd(p, VScale(nv, Num(dt)))
        nm == m - dm
    IN [mass |-> IF nm < 0 THEN 0 ELSE nm,
        position |-> np, velocity |-> nv, time |-> t + dt]

InRange(u, bound) == \A i \in 1..3 : u[i].k = "num" => Abs(u[i].v) <= bound

(* CompactObject.propagate(dt, a_g): a = a_g + f_f / current_mass, and the
   values _update writes *)
TotalAcceleration(a_g) ==
    LET fm == calculate_feedback_force_and_massloss
        a_f == VDivS(fm.force, Num(current_mass))
    IN VAdd(a_g, a_f)

PropagateResult(dt, a_g) ==
    Update(current_mass, current_position, current_velocity, current_time,
           dt, calculate_feedback_force_and_massloss.mdot * dt,
           TotalAcceleration(a_g))

(* __post_init__ makes current_position and current_velocity copies of the
   initial arrays, so the in-place updates of _update reach only the copies *)
CurrentArraysShared == FALSE

CurrentArraysAreCopies == TRUE

(* CompactObject.propagate(dt, a_g) *)
Propagate(dt, a_g) ==
    \E new \in {PropagateResult(dt, a_g)} :
       /\ new.mass <= MaxMass
       /\ InRange(new.velocity, MaxAbsVel)
       /\ InRange(new.position, MaxAbsPos)
       /\ Abs(new.time) <= MaxAbsTime
       /\ current_mass' = new.mass
       /\ current_position' = new.position
       /\ current_velocity' = new.velocity
       /\ current_time' = new.time
       /\ call' = [op |-> "propagate", raised |-> None]
       /\ initial_position' = (IF CurrentArraysAreCopies THEN initial_position
                               ELSE new.position)
       /\ initial_velocity' = (IF CurrentArraysAreCopies THEN initial_velocity
                               ELSE new.velocity)
       /\ UNCHANGED <<variant, initial_mass, initial_time, mass_loss_rate,
                      feedback_factor>>
       /\ UNCHANGED fnVars

(* spawn_new / spawn_cloudcluster: raise NotImplementedError *)
SpawnReturns(op) ==
    /\ call' = [op |-> op, raised |-> None]
    /\ UNCHANGED <<variant, initial_mass, initial_position, initial_velocity,
                   initial_time, current_mass, current_position,
                   current_velocity, current_time, mass_loss_rate,
                   feedback_factor>>
    /\ UNCHANGED fnVars

Spawn(op) ==
    /\ call' = [op |-> op, raised |-> "NotImplementedError"]
    /\ UNCHANGED <<variant, initial_mass, initial_position, initial_velocity,
                   initial_time, current_mass, current_position,
                   current_velocity, current_time, mass_loss_rate,
                   feedback_factor>>
    /\ UNCHANGED fnVars

SpawnNew == Spawn("spawn_new")
SpawnCloudCluster == Spawn("spawn_cloudcluster")

(* a caller invokes calculate_feedback_force_and_massloss() on the object
   and receives the pair (force, mass-loss rate) *)
CalculateFeedback ==
    /\ call' = [op |-> "calculate_feedback_force_and_massloss",
                raised |-> None,
                returned |-> calculate_feedback_force_and_massloss]
    /\ UNCHANGED <<variant, initial_mass, initial_position, initial_velocity,
                   initial_time, current_mass, current_position,
                   current_velocity, current_time, mass_loss_rate,
                   feedback_factor>>
    /\ UNCHANGED fnVars

(* --------------------------- Python values ---------------------------- *)
(* A value is [ty, v, d]: its type, its float components (float, ndarray,
   tuple) and its entries (dict: key -> 3-vector).  An exception in flight
   is a value whose ty is the exception type. *)
EmptyDict == [key \in {} |-> zeros3]
PyFloat(x) == [ty |-> "float", v |-> <<Num(x)>>, d |-> EmptyDict]
PyArray(u) == [ty |-> "ndarray", v |-> u, d |-> EmptyDict]
PyTuple(u) == [ty |-> "tuple", v |-> u, d |-> EmptyDict]
PyDict(entries) == [ty |-> "dict", v |-> <<>>, d |-> entries]
PyNone == [ty |-> "NoneType", v |-> <<>>, d |-> EmptyDict]
PyRaise(e) == [ty |-> e, v |-> <<>>, d |-> EmptyDict]
Exceptions == {"TypeError", "ValueError", "AttributeError", "ImportError"}
IsRaise(x) == x.ty \in Exceptions

(* A callable is [kind, fn, bound, kw]: a library function, a module object
   (not callable), the galpy adapter closure or a caller-supplied function,
   with the positional and keyword arguments functools.partial has bound. *)
Callable(kind, fn) == [kind |-> kind, fn |-> fn, bound |-> <<>>, kw |-> EmptyDict]
NoCallable == Callable("none", "")

(* functools.partial(f, arg): TypeError unless f is callable *)
partial(f, arg) ==
    IF f.kind = "module" THEN [exc |-> "TypeError", f |-> NoCallable]
    ELSE [exc |-> None, f |-> [f EXCEPT !.bound = @ \o <<arg>>]]

(* ------------------------------ registries ---------------------------- *)
(* forces/gravity/__init__.py: the attributes of the gravity package *)
GravityFunctions == {"squared_potential_force"}
GravityModules == {"squared", "galpy_wrapper"}
(* forces/feedback/__init__.py: the attributes of the feedback package *)
FeedbackFunctions == {"constant_feedback", "linear_feedback",
                      "linear_feedback_no_sign_flip", "pulsed_feedback"}
FeedbackModules == {"constant", "linear_time", "pulsed_time"}
(* galpy_wrapper._get_galpy_potential: potential_map *)
potential_map == {"MiyamotoNagai", "NFWPotential", "HernquistPotential"}

(* getattr(package, name): AttributeError when the name is not an attribute *)
GetAttr(functions, modules, name) ==
    IF name \in functions THEN [exc |-> None, f |-> Callable("function", name)]
    ELSE IF name \in modules THEN [exc |-> None, f |-> Callable("module", name)]
    ELSE [exc |-> "AttributeError", f |-> NoCallable]

(* _get_galpy_potential(potential_type): None (NoCallable) or the closure *)
get_galpy_potential(potential_type) ==
    IF ~has_galpy THEN NoCallable
    ELSE IF potential_type \notin potential_map THEN NoCallable
    ELSE Callable("galpy", potential_type)

(* The force evaluators of the external galpy potential object: a fixed
   stand-in, linear in R and in z. *)
Rforce(R, z) == FMul(Num(-1), R)
zforce(R, z) == FMul(Num(-1), z)

(* _get_galpy_potential.potential_callable(pos): returns a tuple *)
potential_callable(pos) ==
    LET R == norm(<<pos.v[1], pos.v[2], Num(0)>>)
        aR == Rforce(R, pos.v[3])
        az == zforce(R, pos.v[3])
        ax == IF FGtZero(R) THEN FDiv(FMul(aR, pos.v[1]), R) ELSE Num(0)
        ay == IF FGtZero(R) THEN FDiv(FMul(aR, pos.v[2]), R) ELSE Num(0)
    IN PyTuple(<<ax, ay, az>>)

(* the parameter lists of the library functions *)
Parameters(fn) ==
    CASE fn = "squared_potential_force" -> <<"pos", "a_0">>
      [] fn = "constant_feedback" -> <<"t", "pos", "a_0">>
      [] fn = "linear_feedback" -> <<"t", "pos", "a_0", "a_1">>
      [] fn = "linear_feedback_no_sign_flip" -> <<"t", "pos", "a_0", "a_1">>
      [] fn = "pulsed_feedback" -> <<"t", "pos", "a_0", "t_pulse", "sigma_t">>

(* ndarray * scalar, and the elementwise ndarray operations *)
VMul(u, w) == [i \in 1..3 |-> FMul(u[i], w[i])]
VNeg(u) == VScale(u, Num(-1))

(* the bodies of the library functions, on the bound parameters b *)
squared_potential_force(b) ==
    IF b["a_0"].ty = "ndarray" /\ b["pos"].ty \in {"ndarray", "tuple"}
    THEN PyArray(VMul(VNeg(b["a_0"].v), b["pos"].v))
    ELSE PyRaise("TypeError")

constant_feedback(b) == b["a_0"]

linear_feedback(b) ==
    IF b["a_0"].ty = "ndarray" /\ b["a_1"].ty = "ndarray" /\ b["t"].ty = "float"
    THEN PyArray(VAdd(b["a_0"].v, VScale(b["a_1"].v, b["t"].v[1])))
    ELSE PyRaise("TypeError")

(* "a if np.sign(a) == np.sign(a_0) else 0.": the truth value of a
   3-element comparison array is a ValueError *)
linear_feedback_no_sign_flip(b) ==
    IF IsRaise(linear_feedback(b)) THEN linear_feedback(b)
    ELSE PyRaise("ValueError")

(* line 28 broadcasts a_0, one row per pulse, against the n pulse times: a
   ValueError unless n is 1 or 3; line 29 is "sum(all_a, axis=1)" and the
   builtin sum takes no keyword axis *)
pulsed_feedback(b) ==
    IF Len(b["t_pulse"].v) \notin {1, 3} THEN PyRaise("ValueError")
    ELSE PyRaise("TypeError")

(* a Python call of a library function with positional arguments pos and
   keyword arguments kw: bind the parameters, then run the body *)
CallFunction(fn, pos, kw) ==
    LET names == Parameters(fn)
        n == Len(names)
    IN IF Len(pos) > n THEN PyRaise("TypeError")
       ELSE IF DOMAIN kw # {names[i] : i \in (Len(pos) + 1)..n}
            THEN PyRaise("TypeError")
       ELSE LET b == [name \in {names[i] : i \in 1..n} |->
                        LET i == CHOOSE j \in 1..n : names[j] = name
                        IN IF i <= Len(pos) THEN pos[i] ELSE PyArray(kw[name])]
            IN CASE fn = "squared_potential_force" -> squared_potential_force(b)
                 [] fn = "constant_feedback" -> constant_feedback(b)
                 [] fn = "linear_feedback" -> linear_feedback(b)
                 [] fn = "linear_feedback_no_sign_flip" -> linear_feedback_no_sign_flip(b)
                 [] fn = "pulsed_feedback" -> pulsed_feedback(b)

(* functions the caller passes as selectors *)
UserCallable(fn, pos) ==
    CASE fn = "caller_gravity" -> PyArray(VNeg(pos[1].v))
      [] fn = "caller_feedback" -> PyArray(<<pos[1].v[1], Num(0), Num(0)>>)
      [] fn = "caller_feedback_tuple" -> PyTuple(Vec(0, 0, 1))

(* calling the callable value f with positional arguments pos *)
Call(f, pos) ==
    CASE f.kind = "function" -> CallFunction(f.fn, f.bound \o pos, f.kw)
      [] f.kind = "galpy" -> potential_callable(pos[1])
      [] f.kind = "user" -> UserCallable(f.fn, pos)
      [] OTHER -> PyRaise("TypeError")

(* Python's a_g + a_f *)
PyAdd(x, y) ==
    IF x.ty = "tuple" /\ y.ty = "tuple" THEN PyTuple(x.v \o y.v)
    ELSE IF {x.ty, y.ty} \subseteq {"ndarray", "tuple"} /\ Len(x.v) = Len(y.v)
         THEN PyArray(VAdd(x.v, y.v))
    ELSE PyRaise("TypeError")

(* calculate_path.propagate(t, pos_and_vel, calculate_a_g, calculate_a_f) *)
propagateCounting(t, pos_and_vel, calculate_a_g, calculate_a_f) ==
    LET pos == PyArray(SubSeq(pos_and_vel, 1, 3))
        vel == SubSeq(pos_and_vel, 4, 6)
        a_f == Call(calculate_a_f, <<PyFloat(t), pos>>)
        a_g == Call(calculate_a_g, <<pos>>)
        a == PyAdd(a_g, a_f)
    IN IF IsRaise(a_f) THEN a_f
       ELSE IF IsRaise(a_g) THEN a_g
       ELSE IF IsRaise(a) THEN a
       ELSE PyArray(vel \o VScale(a.v, Num(1 + Len(evals))))

propagate(t, pos_and_vel, calculate_a_g, calculate_a_f) ==
    LET pos == PyArray(SubSeq(pos_and_vel, 1, 3))
        vel == SubSeq(pos_and_vel, 4, 6)
        a_f == Call(calculate_a_f, <<PyFloat(t), pos>>)
        a_g == Call(calculate_a_g, <<pos>>)
        a == PyAdd(a_g, a_f)
    IN IF IsRaise(a_f) THEN a_f
       ELSE IF IsRaise(a_g) THEN a_g
       ELSE IF IsRaise(a) THEN a
       ELSE PyArray(vel \o a.v)

(* --------------------- single_object_solve: inputs -------------------- *)
MaxEvalTime == 1
MaxEvals == 3

NameSelector(name) == [isstr |-> TRUE, name |-> name, f |-> NoCallable]
FnSelector(fn) == [isstr |-> FALSE, name |-> "", f |-> Callable("user", fn)]

PotentialSelectors ==
    {NameSelector(n) : n \in {"squared_potential_force", "squared",
                              "NFWPotential", "no_such_potential"}}
    \cup {FnSelector("caller_gravity")}

FeedbackSelectors ==
    {NameSelector(n) : n \in {"constant_feedback", "linear_feedback",
                              "pulsed_feedback", "constant",
                              "no_such_feedback"}}
    \cup {FnSelector("caller_feedback"), FnSelector("caller_feedback_tuple")}

FeedbackParams ==
    {PyDict([key \in {"a_0"} |-> Vec(0, 0, -1)]),
     PyDict([key \in {"a_0", "a_1"} |->
                IF key = "a_0" THEN Vec(0, 0, -1) ELSE Vec(0, 0, 1)])}

PotentialParams == {PyNone, PyDict([key \in {"a_0"} |-> Vec(0, 0, 1)])}

EvalTimes == 0..MaxEvalTime
EvalStates == {Vec(0, 0, 1) \o Vec(0, 0, 0), Vec(3, 4, 0) \o Vec(1, 0, 0)}

UnknownPotentialError ==
    "ImportError: single_object_solve: potential provided not in galpy or this libary"
UnknownFeedbackError ==
    "ImportError: single_object_solve: feedback model provided not part of this library"

(* ------------------- single_object_solve: resolution ------------------ *)
(* lines 67-79: the potential selector *)
ResolvePotentialBuiltinFirst(sel, potential_params) ==
    IF ~sel.isstr THEN [exc |-> None, f |-> sel.f, lookups |-> <<>>]
    ELSE LET attr == GetAttr(GravityFunctions, GravityModules, sel.name)
             g == get_galpy_potential(sel.name)
         IN IF attr.exc = None
            THEN [exc |-> None, f |-> attr.f, lookups |-> <<"gravity">>]
            ELSE IF g # NoCallable
                 THEN [exc |-> None, f |-> g, lookups |-> <<"gravity", "galpy">>]
            ELSE [exc |-> attr.exc, f |-> NoCallable,
                  lookups |-> <<"gravity", "galpy">>]

ResolvePotential(sel, potential_params) ==
    IF ~sel.isstr THEN [exc |-> None, f |-> sel.f, lookups |-> <<>>]
    ELSE LET g == get_galpy_potential(sel.name)
         IN IF g # NoCallable
            THEN [exc |-> None, f |-> g, lookups |-> <<"galpy">>]
            ELSE LET attr == GetAttr(GravityFunctions, GravityModules, sel.name)
                     bound == partial(attr.f, potential_params)
                     looked == <<"galpy", "gravity">>
                 IN IF attr.exc = "ImportError"
                    THEN [exc |-> UnknownPotentialError, f |-> NoCallable,
                          lookups |-> looked]
                    ELSE IF attr.exc # None
                    THEN [exc |-> attr.exc, f |-> NoCallable, lookups |-> looked]
                    ELSE IF potential_params.ty # "NoneType"
                    THEN [exc |-> bound.exc, f |-> bound.f, lookups |-> looked]
                    ELSE [exc |-> None, f |-> attr.f, lookups |-> looked]

(* lines 82-88: the feedback selector *)
ResolveFeedback(sel, feedback_params) ==
    IF ~sel.isstr THEN [exc |-> None, f |-> sel.f, lookups |-> <<>>]
    ELSE LET attr == GetAttr(FeedbackFunctions, FeedbackModules, sel.name)
             bound == partial(attr.f, feedback_params)
         IN IF attr.exc = "ImportError"
            THEN [exc |-> UnknownFeedbackError, f |-> NoCallable,
                  lookups |-> <<"feedback">>]
            ELSE IF attr.exc # None
            THEN [exc |-> attr.exc, f |-> NoCallable, lookups |-> <<"feedback">>]
            ELSE [exc |-> bound.exc, f |-> bound.f, lookups |-> <<"feedback">>]

(* ------------------- single_object_solve: the call -------------------- *)
ObjectIdle ==
    /\ variant = "StarCluster"
    /\ initial_mass = 0 /\ current_mass = 0
    /\ initial_position = zeros3 /\ current_position = zeros3
    /\ initial_velocity = zeros3 /\ current_velocity = zeros3
    /\ initial_time = NoTime /\ current_time = 0
    /\ mass_loss_rate = 0 /\ feedback_factor = 0
    /\ call = NoCall

SolveInputs ==
    [potential_func : PotentialSelectors,
     feedback_func : FeedbackSelectors,
     feedback_params : FeedbackParams,
     potential_params : PotentialParams,
     initial_position : {Vec(0, 0, 1)},
     initial_velocity : {Vec(0, 0, 0)},
     t_span : {<<0, 10>>},
     t_eval : {<<0, 5, 10>>}]

FnStart(inputs) ==
    /\ args \in inputs
    /\ potential_func = NoCallable
    /\ feedback_func = NoCallable
    /\ lookups = <<>>
    /\ pc = "called"
    /\ exc = None
    /\ ivp_calls = <<>>
    /\ evals = <<>>
    /\ sol = <<>>
    /\ ret = None

FnInit ==
    /\ has_galpy \in BOOLEAN
    /\ FnStart(SolveInputs)
    /\ ObjectIdle

(* lines 67-94 up to the entry into solve_ivp *)
SingleObjectSolve ==
    /\ pc = "called"
    /\ LET p == ResolvePotential(args.potential_func, args.potential_params)
           fb == ResolveFeedback(args.feedback_func, args.feedback_params)
       IN IF p.exc # None
          THEN /\ pc' = "raised" /\ exc' = p.exc
               /\ lookups' = p.lookups
               /\ UNCHANGED <<potential_func, feedback_func, ivp_calls>>
          ELSE IF fb.exc # None
          THEN /\ pc' = "raised" /\ exc' = fb.exc
               /\ lookups' = p.lookups \o fb.lookups
               /\ potential_func' = p.f
               /\ UNCHANGED <<feedback_func, ivp_calls>>
          ELSE /\ pc' = "integrating" /\ exc' = None
               /\ lookups' = p.lookups \o fb.lookups
               /\ potential_func' = p.f
               /\ feedback_func' = fb.f
               /\ ivp_calls' = Append(ivp_calls,
                      [y0 |-> args.initial_position \o args.initial_velocity,
                       t_span |-> args.t_span, t_eval |-> args.t_eval,
                       rtol |-> "1e-8", atol |-> "1e-10"])
    /\ UNCHANGED <<has_galpy, args, evals, sol, ret>>
    /\ UNCHANGED objVars

(* solve_ivp evaluates _propagate(t, y); an exception of the derivative
   propagates out of solve_ivp and out of single_object_solve *)
Evaluate(t, y) ==
    /\ pc = "integrating"
    /\ Len(evals) < MaxEvals
    /\ \E out \in {propagate(t, y, potential_func, feedback_func)} :
          /\ evals' = Append(evals, [t |-> t, y |-> y, out |-> out])
          /\ IF IsRaise(out)
             THEN pc' = "raised" /\ exc' = out.ty
             ELSE UNCHANGED <<pc, exc>>
    /\ UNCHANGED <<has_galpy, args, potential_func, feedback_func, lookups,
                   ivp_calls, sol, ret>>
    /\ UNCHANGED objVars

(* solve_ivp returns its result, which line 94 returns *)
SolveIvpChecked(success) ==
    /\ pc = "integrating"
    /\ evals # <<>>
    /\ sol' = <<[type |-> "OdeResult", success |-> success]>>
    /\ IF success
       THEN pc' = "returned" /\ ret' = sol'[1] /\ UNCHANGED exc
       ELSE pc' = "raised" /\ exc' = "RuntimeError" /\ UNCHANGED ret
    /\ UNCHANGED <<has_galpy, args, potential_func, feedback_func, lookups,
                   ivp_calls, evals>>
    /\ UNCHANGED objVars

SolveIvpReturns(success) ==
    /\ pc = "integrating"
    /\ evals # <<>>
    /\ sol' = <<[type |-> "OdeResult", success |-> success]>>
    /\ pc' = "returned"
    /\ ret' = sol'[1]
    /\ UNCHANGED <<has_galpy, args, potential_func, feedback_func, lookups,
                   exc, ivp_calls, evals>>
    /\ UNCHANGED objVars

FnNext ==
    \/ SingleObjectSolve
    \/ \E t \in EvalTimes, y \in EvalStates : Evaluate(t, y)
    \/ \E success \in BOOLEAN : SolveIvpReturns(success)

FnSpec == FnInit /\ [][FnNext]_vars

(* ----------------------- CompactObject: the spec ---------------------- *)
FnIdle ==
    /\ has_galpy = FALSE
    /\ args = None
    /\ potential_func = NoCallable
    /\ feedback_func = NoCallable
    /\ lookups = <<>>
    /\ pc = "idle"
    /\ exc = None
    /\ ivp_calls = <<>>
    /\ evals = <<>>
    /\ sol = <<>>
    /\ ret = None

ObjInit == ObjectInit /\ FnIdle

ObjNext ==
    \/ \E dt \in Steps, a_g \in AxisVecs : Propagate(dt, a_g)
    \/ SpawnNew
    \/ SpawnCloudCluster
    \/ CalculateFeedback

ObjSpec == ObjInit /\ [][ObjNext]_vars

(* --------------- direct calls of the feedback functions --------------- *)
MaxPulses == 2

DirectTimes == 0..(MaxEvalTime + 1)

(* per-pulse arrays of n pulses: the peak accelerations a_0[i], the pulse
   times t_pulse[i] and the widths sigma_t[i] *)
PulseParams ==
    UNION {{[key \in {"a_0", "t_pulse", "sigma_t"} |->
                IF key = "a_0" THEN a_0
                ELSE IF key = "t_pulse" THEN t_pulse
                ELSE [i \in 1..n |-> Num(1)]] :
              a_0 \in [1..n -> AxisVecs],
              t_pulse \in [1..n -> {Num(t) : t \in EvalTimes}]} :
           n \in 1..MaxPulses}

LinearParams ==
    {[key \in {"a_0", "a_1"} |-> IF key = "a_0" THEN a_0 ELSE a_1] :
        a_0 \in AxisVecs, a_1 \in AxisVecs}

ConstantParams == {[key \in {"a_0"} |-> a_0] : a_0 \in AxisVecs}

(* the calls fn(t, pos, **kw) a caller can make *)
DirectCalls ==
    {[fn |-> fn, t |-> t, pos |-> zeros3, kw |-> kw] :
        fn \in {"pulsed_feedback"}, t \in DirectTimes, kw \in PulseParams}
    \cup {[fn |-> fn, t |-> t, pos |-> zeros3, kw |-> kw] :
            fn \in {"linear_feedback", "linear_feedback_no_sign_flip"},
            t \in DirectTimes, kw \in LinearParams}
    \cup {[fn |-> fn, t |-> t, pos |-> zeros3, kw |-> kw] :
            fn \in {"constant_feedback"}, t \in DirectTimes,
            kw \in ConstantParams}

DirectInit ==
    /\ ObjectIdle
    /\ has_galpy = FALSE
    /\ args \in DirectCalls
    /\ potential_func = NoCallable
    /\ feedback_func = NoCallable
    /\ lookups = <<>>
    /\ pc = "called"
    /\ exc = None
    /\ ivp_calls = <<>>
    /\ evals = <<>>
    /\ sol = <<>>
    /\ ret = None

(* the call runs: it returns a value or raises *)
DirectCall ==
    /\ pc = "called"
    /\ \E out \in {CallFunction(args.fn, <<PyFloat(args.t), PyArray(args.pos)>>,
                                 args.kw)} :
          IF IsRaise(out)
          THEN pc' = "raised" /\ exc' = out.ty /\ UNCHANGED ret
          ELSE pc' = "returned" /\ ret' = out /\ UNCHANGED exc
    /\ UNCHANGED <<has_galpy, args, potential_func, feedback_func, lookups,
                   ivp_calls, evals, sol>>
    /\ UNCHANGED objVars

DirectNext == DirectCall

DirectSpec == DirectInit /\ [][DirectNext]_vars

(* ------------------ simulations/propagate.create_object --------------- *)
(* create_object: object_types *)
object_types == <<"star_cluster", "molecular_cloud">>
ObjectClass(object_type) ==
    IF object_type = "star_cluster" THEN "StarCluster"
    ELSE "SelfPropellingMolecularCloud"

(* the parameters of the two constructors without and with a default *)
RequiredParameters(class) ==
    IF class = "StarCluster"
    THEN {"initial_mass", "initial_position", "initial_velocity",
          "mass_loss_rate"}
    ELSE {"initial_mass", "initial_position", "initial_velocity",
          "feedback_factor", "mass_loss_rate"}
OptionalParameters(class) == {"initial_time"}

(* the keywords a caller passes, each with one fixed value *)
Keywords == {"initial_mass", "initial_position", "initial_velocity",
             "initial_time", "mass_loss_rate", "feedback_factor"}
KeywordMass == 1
KeywordVelocity == Vec(1, 0, 0)
KeywordTime == 1
KeywordRate == 1
KeywordFactor == 1

(* Python binds the keywords passed to ObjectClass: the TypeErrors it can
   raise, an unknown keyword being reported before missing parameters *)
BindKeywords(class, kwargs) ==
    LET known == RequiredParameters(class) \cup OptionalParameters(class)
        unexpected == kwargs \ known
        missing == RequiredParameters(class) \ kwargs
    IN IF unexpected # {}
       THEN {[kind |-> "got an unexpected keyword argument", names |-> {k}] :
                k \in unexpected}
       ELSE IF missing # {}
            THEN {[kind |-> "missing required positional arguments",
                   names |-> missing]}
       ELSE {}

NoObject ==
    /\ variant = None
    /\ initial_mass = 0 /\ current_mass = 0
    /\ initial_position = zeros3 /\ current_position = zeros3
    /\ initial_velocity = zeros3 /\ current_velocity = zeros3
    /\ initial_time = NoTime /\ current_time = 0
    /\ mass_loss_rate = 0 /\ feedback_factor = 0
    /\ call = [op |-> "none", raised |-> None]

CreateCalls ==
    [object_type : {"star_cluster", "molecular_cloud", "black_hole"},
     kwargs : SUBSET Keywords]

CreateInit ==
    /\ NoObject
    /\ has_galpy = FALSE
    /\ args \in CreateCalls
    /\ potential_func = NoCallable
    /\ feedback_func = NoCallable
    /\ lookups = <<>>
    /\ pc = "called"
    /\ exc = None
    /\ ivp_calls = <<>>
    /\ evals = <<>>
    /\ sol = <<>>
    /\ ret = None

(* the constructor runs: __init__ and __post_init__ set the fields *)
Construct(class, kwargs) ==
    /\ variant' = class
    /\ initial_mass' = KeywordMass /\ current_mass' = KeywordMass
    /\ initial_position' = zeros3 /\ current_position' = zeros3
    /\ initial_velocity' = KeywordVelocity
    /\ current_velocity' = KeywordVelocity
    /\ initial_time' = (IF "initial_time" \in kwargs THEN <<KeywordTime>>
                        ELSE NoTime)
    /\ current_time' = (IF "initial_time" \in kwargs THEN KeywordTime ELSE 0)
    /\ mass_loss_rate' = KeywordRate
    /\ feedback_factor' = (IF class = "StarCluster" THEN 0 ELSE KeywordFactor)
    /\ call' = NoCall

(* create_object: object_type and the keyword arguments in args *)
CreateObject ==
    /\ pc = "called"
    /\ IF args.object_type \notin {object_types[i] : i \in 1..Len(object_types)}
       THEN /\ pc' = "raised"
            /\ exc' = [type |-> "ValueError",
                       message |-> "Unknown object type",
                       object_type |-> args.object_type,
                       must_be_one_of |-> object_types]
            /\ UNCHANGED objVars
       ELSE LET class == ObjectClass(args.object_type)
                errors == BindKeywords(class, args.kwargs)
            IN IF errors # {}
               THEN /\ pc' = "raised"
                    /\ \E e \in errors :
                          exc' = [type |-> "ValueError",
                                  message |-> "Missing required parameters for",
                                  object_type |-> args.object_type,
                                  detail |-> e]
                    /\ UNCHANGED objVars
               ELSE /\ pc' = "returned"
                    /\ Construct(class, args.kwargs)
                    /\ UNCHANGED exc
    /\ UNCHANGED <<has_galpy, args, potential_func, feedback_func, lookups,
                   ivp_calls, evals, sol, ret>>

CreateNext == CreateObject

CreateSpec == CreateInit /\ [][CreateNext]_vars

(* --------------- simulations/propagate.single_object_solve ------------ *)
(* the keys of initial_conditions a caller passes *)
InitialConditions ==
    {c \cup t : c \in {{"initial_mass", "initial_velocity", "mass_loss_rate"},
                        {"initial_mass", "initial_velocity", "mass_loss_rate",
                         "feedback_factor"}},
                t \in {{}, {"initial_time"}}}

(* potential_func: a galpy name, or a function of x, y, z *)
SimPotentials ==
    {NameSelector("NFWPotential"),
     FnSelector("caller_potential_xyz")}

SimInputs ==
    [object_type : {"star_cluster", "molecular_cloud"},
     initial_conditions : InitialConditions,
     potential_func : SimPotentials]

(* the positions the integrator evaluates the function at *)
SimPositions == {zeros3, Vec(1, 0, 0)}

SimInit ==
    /\ NoObject
    /\ has_galpy \in BOOLEAN
    /\ args \in SimInputs
    /\ potential_func = NoCallable
    /\ feedback_func = NoCallable
    /\ lookups = <<>>
    /\ pc = "called"
    /\ exc = None
    /\ ivp_calls = <<>>
    /\ evals = <<>>
    /\ sol = <<>>
    /\ ret = None

(* lines 117-148 up to the call of solve_ivp: the potential is looked up,
   the object is created and the integrator is started *)
SimStart ==
    /\ pc = "called"
    /\ LET class == ObjectClass(args.object_type)
           kwargs == args.initial_conditions \cup {"initial_position"}
       IN IF args.potential_func.isstr /\ ~has_galpy
          THEN /\ pc' = "raised" /\ exc' = "ImportError"
               /\ UNCHANGED <<potential_func, ivp_calls>>
               /\ UNCHANGED objVars
          ELSE IF BindKeywords(class, kwargs) # {}
          THEN /\ pc' = "raised" /\ exc' = "ValueError"
               /\ potential_func' = (IF args.potential_func.isstr
                                     THEN Callable("galpy", args.potential_func.name)
                                     ELSE args.potential_func.f)
               /\ UNCHANGED ivp_calls
               /\ UNCHANGED objVars
          ELSE /\ pc' = "integrating"
               /\ potential_func' = (IF args.potential_func.isstr
                                     THEN Callable("galpy", args.potential_func.name)
                                     ELSE args.potential_func.f)
               /\ Construct(class, kwargs)
               /\ ivp_calls' = <<[y0 |-> zeros3, rtol |-> "1e-8",
                                  atol |-> "1e-10"]>>
               /\ UNCHANGED exc
    /\ UNCHANGED <<has_galpy, args, feedback_func, lookups, evals, sol, ret>>

(* _potential(pos[0], pos[1], pos[2]): the galpy closure takes one argument;
   the caller's function is a fixed stand-in, linear in the position *)
CallPotential(f, x, y, z) ==
    IF f.kind = "user" THEN PyTuple(<<FMul(Num(-1), x), FMul(Num(-1), y),
                                      FMul(Num(-1), z)>>)
    ELSE PyRaise("TypeError")

(* the integrator calls _propagate(t, pos) on the object *)
SimEvaluate(t, pos) ==
    /\ pc = "integrating"
    /\ Len(evals) < MaxEvals
    /\ \E a \in {CallPotential(potential_func, pos[1], pos[2], pos[3])} :
          IF IsRaise(a)
          THEN /\ pc' = "raised" /\ exc' = a.ty
               /\ evals' = Append(evals, [t |-> t, pos |-> pos, out |-> a,
                                          mass |-> current_mass])
               /\ UNCHANGED objVars
          ELSE \E new \in {PropagateResult(t - current_time, a.v)} :
                  /\ new.mass <= MaxMass
                  /\ InRange(new.velocity, MaxAbsVel)
                  /\ InRange(new.position, MaxAbsPos)
                  /\ current_mass' = new.mass
                  /\ current_position' = new.position
                  /\ current_velocity' = new.velocity
                  /\ current_time' = new.time
                  /\ call' = [op |-> "propagate", raised |-> None]
                  /\ evals' = Append(evals, [t |-> t, pos |-> pos,
                                             out |-> PyArray(new.position),
                                             mass |-> new.mass])
                  /\ UNCHANGED <<variant, initial_mass, initial_position,
                                 initial_velocity, initial_time,
                                 mass_loss_rate, feedback_factor>>
                  /\ UNCHANGED <<pc, exc>>
    /\ UNCHANGED <<has_galpy, args, potential_func, feedback_func, lookups,
                   ivp_calls, sol, ret>>

(* solve_ivp returns; line 149 returns the pair (sol, compact_object) *)
SimReturns(success) ==
    /\ pc = "integrating"
    /\ evals # <<>>
    /\ pc' = "returned"
    /\ sol' = <<[type |-> "OdeResult", success |-> success]>>
    /\ ret' = <<sol'[1], "compact_object">>
    /\ UNCHANGED <<has_galpy, args, potential_func, feedback_func, lookups,
                   exc, ivp_calls, evals>>
    /\ UNCHANGED objVars

SimNext ==
    \/ SimStart
    \/ \E t \in EvalTimes, pos \in SimPositions : SimEvaluate(t, pos)
    \/ \E success \in BOOLEAN : SimReturns(success)

SimSpec == SimInit /\ [][SimNext]_vars

(* ---------------------- claims: CompactObject path -------------------- *)
SpawnOps == {"spawn_new", "spawn_cloudcluster"}
Elapsed == current_time - (IF initial_time # NoTime THEN initial_time[1] ELSE 0)

(* C1: for an object constructed with initial_mass >= 0, current_mass >= 0
   holds after every propagate call, for every mass-loss rate and step. *)
C1_MassNeverNegative == current_mass >= 0

(* the loss requested by one step exceeds the mass left: the clamp acts *)
C1_Witness ==
    /\ call.op = "propagate"
    /\ initial_mass = 1 /\ mass_loss_rate = 2 /\ Elapsed = 1
    /\ current_mass = 0

(* C2 (as claimed): propagate never writes a NaN/Inf into current_velocity
   or current_position; at current_mass = 0 it signals a domain error
   instead of dividing by zero. *)
C2_NoNaNWritten ==
    call.op = "propagate" =>
        VFinite(current_velocity) /\ VFinite(current_position)

(* C3: propagate is a semi-implicit Euler step: with a the total
   acceleration, v' = v + a*dt and p' = p + (v + a*dt)*dt, the position
   using the already-updated velocity. *)
C3_SemiImplicitEuler ==
    [][\A dt \in Steps \cap {current_time' - current_time}, a_g \in AxisVecs :
          Propagate(dt, a_g) =>
             LET a == TotalAcceleration(a_g)
                 v1 == VAdd(current_velocity, VScale(a, Num(dt)))
             IN /\ current_velocity' = v1
                /\ current_position' = VAdd(current_position, VScale(v1, Num(dt)))]_vars

(* the cloud of the test, scaled: v = (1,0,0), feedback_factor 1, one step
   dt = 1 from the origin: v = (2,0,0) and p = (2,0,0), not (1,0,0) *)
C3_Witness ==
    /\ call.op = "propagate"
    /\ variant = "SelfPropellingMolecularCloud"
    /\ initial_velocity = Vec(1, 0, 0) /\ Elapsed = 1
    /\ feedback_factor = 1 /\ initial_mass > 0
    /\ current_velocity = Vec(2, 0, 0)
    /\ current_position = Vec(2, 0, 0)

(* C4: the spawn operations always fail with NotImplementedError, on both
   variants and in every state, never return a value, and leave the
   current_* state as it was. *)
C4_SpawnNotImplemented ==
    /\ [](call.op \in SpawnOps => call.raised = "NotImplementedError")
    /\ [][call'.op \in SpawnOps /\ call' # call =>
             UNCHANGED <<current_mass, current_position, current_velocity,
                         current_time>>]_vars

(* a spawn attempted on an object that has already been stepped *)
C4_Witness ==
    /\ call.op = "spawn_cloudcluster"
    /\ call.raised = "NotImplementedError"
    /\ Elapsed # 0
    /\ current_position # initial_position

(* ---------------------- claims: the functional path ------------------- *)
PosOf(e) == PyArray(SubSeq(e.y, 1, 3))
GravityAt(e) == Call(potential_func, <<PosOf(e)>>)
FeedbackAt(e) == Call(feedback_func, <<PyFloat(e.t), PosOf(e)>>)

(* C5: the derivative function is pure: any two evaluations with the same
   (t, state6) and the same models return identical results, in any time
   order, and no evaluation changes the state a later evaluation reads. *)
C5_DerivativePure ==
    /\ [](\A i, j \in DOMAIN evals :
            evals[i].t = evals[j].t /\ evals[i].y = evals[j].y
               => evals[i].out = evals[j].out)
    /\ [][pc = "integrating" =>
             UNCHANGED <<potential_func, feedback_func, args, has_galpy>>]_vars

(* a backward step followed by a repetition of the first evaluation, with a
   time-dependent feedback model *)
C5_Witness ==
    /\ Len(evals) = 3
    /\ evals[1].t = 1 /\ evals[2].t = 0 /\ evals[3].t = 1
    /\ evals[1].y = evals[2].y /\ evals[1].y = evals[3].y
    /\ feedback_func.fn = "caller_feedback"
    /\ evals[1].out # evals[2].out
    /\ ~IsRaise(evals[3].out)

(* C6 (as claimed): the derivative is the 6-vector [vel, gravity_fn(pos) +
   feedback_fn(t, pos)], the sum being the vector sum. *)
C6_DerivativeIsVelocityAndAcceleration ==
    \A i \in DOMAIN evals :
       LET e == evals[i]
       IN (~IsRaise(GravityAt(e)) /\ ~IsRaise(FeedbackAt(e))) =>
             /\ e.out.ty = "ndarray"
             /\ Len(e.out.v) = 6
             /\ SubSeq(e.out.v, 1, 3) = SubSeq(e.y, 4, 6)
             /\ SubSeq(e.out.v, 4, 6) = VAdd(GravityAt(e).v, FeedbackAt(e).v)

(* C7 (as claimed): a potential name in neither registry fails with the
   descriptive unknown-potential error before the integrator is invoked. *)
C7_UnknownPotentialFails ==
    (/\ pc \in {"integrating", "raised", "returned"}
     /\ args.potential_func.isstr
     /\ args.potential_func.name \notin potential_map
     /\ args.potential_func.name \notin GravityFunctions)
    => (exc = UnknownPotentialError /\ ivp_calls = <<>>)

(* C8 (as claimed): a feedback name that is not in the feedback registry
   fails with the descriptive unknown-feedback-model error before the
   integrator is invoked (the potential selector having resolved). *)
C8_UnknownFeedbackFails ==
    (/\ pc \in {"integrating", "raised", "returned"}
     /\ ResolvePotential(args.potential_func, args.potential_params).exc = None
     /\ args.feedback_func.isstr
     /\ args.feedback_func.name \notin FeedbackFunctions)
    => (exc = UnknownFeedbackError /\ ivp_calls = <<>>)

(* C9: a callable potential selector is used as-is with no registry lookup;
   a name is looked up in the external registry first, the built-in
   registry only if the external lookup yields nothing; a name of the
   external registry is never resolved to a built-in model. *)
C9_ResolutionOrder ==
    pc \in {"integrating", "raised", "returned"} =>
       LET sel == args.potential_func
       IN /\ ~sel.isstr =>
               /\ "galpy" \notin {lookups[i] : i \in DOMAIN lookups}
               /\ "gravity" \notin {lookups[i] : i \in DOMAIN lookups}
               /\ potential_func = sel.f
          /\ sel.isstr => (Len(lookups) >= 1 /\ lookups[1] = "galpy")
          /\ "gravity" \in {lookups[i] : i \in DOMAIN lookups} =>
               /\ Len(lookups) >= 2
               /\ lookups[1] = "galpy" /\ lookups[2] = "gravity"
               /\ (~has_galpy \/ sel.name \notin potential_map)
          /\ (sel.isstr /\ sel.name \in potential_map) =>
               potential_func.kind \in {"galpy", "none"}

(* with galpy installed, a built-in name falls through the external
   registry to the built-in one *)
C9_Witness ==
    /\ pc = "integrating"
    /\ has_galpy
    /\ args.potential_func.isstr
    /\ lookups = <<"galpy", "gravity", "feedback">>
    /\ potential_func.kind = "function"
    /\ potential_func.fn = "squared_potential_force"

(* the named model with the parameters bound as its keyword arguments *)
C10_BoundByKeyword(fn, params) ==
    [kind |-> "function", fn |-> fn, bound |-> <<>>, kw |-> params.d]

(* C10 (as claimed): every derivative evaluation at (t, pos) invokes the
   named feedback model as model(t, pos, **feedback_params) and the named
   built-in gravity model as model(pos, **potential_params). *)
C10_ParamsBoundAsKeywords ==
    \A i \in DOMAIN evals :
       LET e == evals[i]
       IN /\ (args.feedback_func.isstr /\ feedback_func.kind = "function") =>
                FeedbackAt(e) =
                   Call(C10_BoundByKeyword(args.feedback_func.name,
                                           args.feedback_params),
                        <<PyFloat(e.t), PosOf(e)>>)
          /\ (/\ args.potential_func.isstr
              /\ potential_func.kind = "function"
              /\ args.potential_params.ty = "dict") =>
                GravityAt(e) =
                   Call(C10_BoundByKeyword(args.potential_func.name,
                                           args.potential_params),
                        <<PosOf(e)>>)

(* C11: once both selectors are resolved, solve_ivp is invoked exactly once
   with y0 = [*initial_position, *initial_velocity], the caller's t_span and
   t_eval, rtol = 1e-8 and atol = 1e-10, and its result object is returned
   unchanged; a result reporting failure is returned as-is, neither turned
   into an error nor retried. *)
C11_IntegratorCalledOnceResultPassedThrough ==
    /\ ((/\ pc \in {"integrating", "raised", "returned"}
         /\ ResolvePotential(args.potential_func, args.potential_params).exc = None
         /\ ResolveFeedback(args.feedback_func, args.feedback_params).exc = None)
        => ivp_calls = <<[y0 |-> args.initial_position \o args.initial_velocity,
                          t_span |-> args.t_span, t_eval |-> args.t_eval,
                          rtol |-> "1e-8", atol |-> "1e-10"]>>)
    /\ (sol # <<>> => (pc = "returned" /\ exc = None /\ ret = sol[1]))
    /\ Len(sol) <= 1

(* the integrator reported failure and the caller received that result *)
C11_Witness ==
    /\ pc = "returned"
    /\ sol = <<[type |-> "OdeResult", success |-> FALSE]>>
    /\ ret.success = FALSE
    /\ Len(ivp_calls) = 1

(* C12: for a SelfPropellingMolecularCloud with current_mass > 0 and a
   non-zero velocity v, propagate(dt, a_g = 0) sets the velocity to
   v + feedback_factor * (v/|v|) * dt, whatever the mass and the mass-loss
   rate are. *)
C12_CloudSelfAcceleration ==
    [][\A dt \in Steps \cap {current_time' - current_time} :
          (/\ variant = "SelfPropellingMolecularCloud"
           /\ current_mass > 0
           /\ VFinite(current_velocity)
           /\ current_velocity # zeros3
           /\ Propagate(dt, zeros3))
          => current_velocity' =
                VAdd(current_velocity,
                     VScale(VScale(VDivS(current_velocity, norm(current_velocity)),
                                   Num(feedback_factor)),
                            Num(dt)))]_vars

(* a cloud of mass 2 losing mass at rate 1, v = (1,0,0), feedback_factor 1,
   after one step dt = 1 without gravity: v = (2,0,0) *)
C12_Witness ==
    /\ call.op = "propagate"
    /\ variant = "SelfPropellingMolecularCloud"
    /\ initial_mass = 2 /\ mass_loss_rate = 1 /\ current_mass = 1
    /\ initial_velocity = Vec(1, 0, 0) /\ feedback_factor = 1
    /\ Elapsed = 1
    /\ current_velocity = Vec(2, 0, 0)
    /\ current_position = Vec(2, 0, 0)

(* C13: for a StarCluster in any state reachable through propagate calls,
   propagate(dt, a_g = 0) leaves current_velocity unchanged, for every dt
   and every mass-loss rate (stated for clusters constructed with a
   positive mass). *)
C13_ClusterVelocityUnchanged ==
    [][\A dt \in Steps \cap {current_time' - current_time} :
          (variant = "StarCluster" /\ initial_mass > 0 /\ Propagate(dt, zeros3))
          => current_velocity' = current_velocity]_vars

(* C14: calculate_feedback_force_and_massloss() of a
   SelfPropellingMolecularCloud whose velocity is exactly zero returns a zero
   force together with the configured mass_loss_rate, for every mass and
   feedback_factor, and the call does not modify the object. *)
C14_ZeroVelocityZeroForce ==
    [][call'.op = "calculate_feedback_force_and_massloss" =>
          /\ UNCHANGED <<variant, initial_mass, initial_position,
                         initial_velocity, initial_time, current_mass,
                         current_position, current_velocity, current_time,
                         mass_loss_rate, feedback_factor>>
          /\ (variant = "SelfPropellingMolecularCloud"
                /\ current_velocity = zeros3)
             => /\ call'.returned.force = zeros3
                /\ call'.returned.mdot = mass_loss_rate]_vars

(* a resting cloud with positive mass and non-zero feedback_factor was asked
   for its feedback force *)
C14_Witness ==
    /\ call.op = "calculate_feedback_force_and_massloss"
    /\ variant = "SelfPropellingMolecularCloud"
    /\ current_velocity = zeros3
    /\ current_mass > 0 /\ feedback_factor > 0 /\ mass_loss_rate > 0
    /\ call.returned = [force |-> zeros3, mdot |-> mass_loss_rate]

(* C15: pulsed_feedback called with parallel per-pulse arrays returns the
   sum over the pulses of a_0[i] scaled by the time profile; in particular
   it returns a value, and with a single pulse at t = t_pulse[0] that value
   is exactly a_0[0]. *)
C15_PulsedFeedbackSum ==
    (pc # "called" /\ args.fn = "pulsed_feedback")
    => /\ pc = "returned"
       /\ (Len(args.kw["t_pulse"]) = 1 /\ args.kw["t_pulse"][1] = Num(args.t))
          => ret = PyArray(args.kw["a_0"][1])

(* C16: linear_feedback_no_sign_flip called with 3-vectors returns
   a_0 + a_1*t while that vector has the sign of a_0 and zero once the sign
   would reverse; it returns a value for every t and every 3-vectors. *)
C16_NoSignFlip ==
    (pc # "called" /\ args.fn = "linear_feedback_no_sign_flip")
    => /\ pc = "returned"
       /\ LET a == VAdd(args.kw["a_0"], VScale(args.kw["a_1"], Num(args.t)))
          IN IF \A i \in 1..3 : FSign(a[i]) = FSign(args.kw["a_0"][i])
             THEN ret = PyArray(a)
             ELSE ret \in {PyFloat(0), PyArray(zeros3)}

(* C17: create_object called for a known object type without one of that
   variant's required parameters fails with a missing-parameter error that
   names the variant and the missing field, and no object is created; called
   with an unknown object type it fails with an error listing the known
   types. *)
C17_CreateObjectErrors ==
    pc # "called" =>
       IF args.object_type \notin {"star_cluster", "molecular_cloud"}
       THEN /\ pc = "raised"
            /\ exc.type = "ValueError"
            /\ exc.message = "Unknown object type"
            /\ exc.must_be_one_of = <<"star_cluster", "molecular_cloud">>
            /\ NoObject
       ELSE (RequiredParameters(ObjectClass(args.object_type)) \ args.kwargs # {})
            => /\ pc = "raised"
               /\ NoObject
               /\ exc.message = "Missing required parameters for"
               /\ exc.object_type = args.object_type
               /\ (RequiredParameters(ObjectClass(args.object_type)) \ args.kwargs)
                     \subseteq exc.detail.names

(* C18: initial_mass, initial_position, initial_velocity and initial_time
   keep the values given at construction across any sequence of propagate
   calls; the in-place updates of the current arrays never change the
   initial ones. *)
C18_InitialValuesImmutable ==
    [][/\ initial_mass' = initial_mass
       /\ initial_position' = initial_position
       /\ initial_velocity' = initial_velocity
       /\ initial_time' = initial_time]_vars

(* an object that has moved and accelerated away from its initial values and
   lost mass *)
C18_Witness ==
    /\ call.op = "propagate"
    /\ initial_position = zeros3 /\ current_position = Vec(2, 0, 0)
    /\ initial_velocity = Vec(1, 0, 0) /\ current_velocity = Vec(2, 0, 0)
    /\ initial_mass = 2 /\ current_mass = 1
    /\ initial_time = <<1>> /\ current_time = 2

(* C19: a newly constructed object has age 0, and every propagate(dt, a_g)
   advances current_time and get_age() by exactly dt, also on a step that
   clamps the mass at zero; so after steps dt_1..dt_n current_time is the
   initial time (0 when none was given) plus their sum and get_age() is
   their sum. *)
C19_TimeIsInitialPlusSteps ==
    /\ (get_age = 0 /\ current_time = (IF initial_time = NoTime THEN 0
                                        ELSE initial_time[1]))
    /\ [][\A dt \in Steps, a_g \in AxisVecs :
             (call'.op = "propagate" /\ Propagate(dt, a_g))
             => /\ current_time' = current_time + dt
                /\ get_age' = get_age + dt]_vars

(* an object of mass 1 losing 2 per unit time, constructed at time 1, after
   steps that sum to 1: the mass was clamped at zero and the clock reads 2 *)
C19_Witness ==
    /\ call.op = "propagate"
    /\ initial_mass = 1 /\ mass_loss_rate = 2 /\ current_mass = 0
    /\ initial_time = <<1>> /\ current_time = 2
    /\ get_age = 1

(* C20: the function the object-based single_object_solve hands to the
   integrator retains no hidden state: in any sequence of evaluations,
   repeated and backward times included, equal (t, pos) give equal results,
   and an evaluation at a time earlier than the previous one does not
   increase current_mass. *)
C20_ObjectDerivativeStateless ==
    /\ \A i, j \in DOMAIN evals :
          (evals[i].t = evals[j].t /\ evals[i].pos = evals[j].pos)
          => evals[i].out = evals[j].out
    /\ \A i \in DOMAIN evals :
          (i > 1 /\ evals[i].t < evals[i - 1].t)
          => evals[i].mass <= evals[i - 1].mass

=============================================================================
